---- MODULE Spec2Model ----
(***************************************************************************)
(* ConnectionFactory of faktory_worker_node (src/src/connection-factory.ts) *)
(* as a state machine.  The factory's only own state is `attempts`.  Every  *)
(* create() invocation is an asynchronous task: it runs synchronously up to *)
(* an await, is suspended there, and is resumed once the awaited promise    *)
(* has settled.  The settling of a promise (by the transport, the injected  *)
(* handshake function or the timer) and the resumption of the task that     *)
(* awaits it are separate steps, so other tasks may run in between.         *)
(*                                                                         *)
(* conns     the Connection objects still referenced, by identity          *)
(* calls     the create() invocations in flight, each under the identity   *)
(*           of the connection it constructed                              *)
(* outcome   how the create() that built a connection settled              *)
(* streak    history: failures observed since the last success observed    *)
(* lastValidate  history: what the last validate() call returned, with the *)
(*           `connected` flag and the transport's real state at that call  *)
(* errors    history: the "error" events emitted so far, how many of them   *)
(*           reached onConnectionError, and the connection of the last one *)
(***************************************************************************)
EXTENDS Integers, FiniteSets, Sequences, TLC

VARIABLES attempts, nextId, conns, calls, outcome, streak, lastValidate,
          errors

vars == <<attempts, nextId, conns, calls, outcome, streak, lastValidate, errors>>

(* ---------------------------- bounds ---------------------------------- *)
\* create() invocations that may be in flight at the same time
MaxInFlight == 2
\* Connection objects constructed over a whole behaviour
MaxCreates == 3
\* Connection objects constructed over a whole outage (SpecOutage)
MaxRetries == 22
\* Connection objects referenced at the same time
MaxLive == 2
\* destroy() calls the pool may issue on one connection
MaxDestroy == 2
\* "error" events the connections emit over a whole behaviour (SpecEvents)
MaxErrors == 1
\* Connection objects constructed over a whole behaviour of SpecEvents
MaxEventCreates == 2

\* create() calls made while every handshake fails and calls overlap
MaxStorm == 4

(* ----------------------- program constants ---------------------------- *)
\* 200 * Math.min(this.attempts, 20)
BackoffUnit == 200
BackoffCap == 20

\* the failures open() and the handshake function raise.  The factory never
\* looks into a failure, so one value for each source stands for all of them.
OpenErrors == {"ECONNREFUSED"}
HandshakeErrors == {"EHANDSHAKE"}

Min(a, b) == IF a <= b THEN a ELSE b

\* the ramp without its cap
NapTime_Uncapped(a) == BackoffUnit * a

\* const napTime = 200 * Math.min(this.attempts, 20)
NapTime(a) == BackoffUnit * Min(a, BackoffCap)

\* a failure counted twice
Incremented_Twice(a) == a + 2

\* this.attempts += 1
Incremented(a) == a + 1

\* a success that leaves the counter alone
AttemptsKept == attempts

\* this.attempts = 0
AttemptsAfterSuccess == 0

(* ------------------------- Connection --------------------------------- *)
\* new Connection(port, host, tlsOptions): nothing opened, no listeners
NewConnection ==
  [ open       |-> "idle",    \* promise of open(): idle, pending, ok, err
    openCalls  |-> 0,
    hs         |-> "idle",    \* promise of handshake(connection, greeting)
    hsCalls    |-> 0,
    raised     |-> "none",    \* the error open() or handshake() raised
    connected  |-> FALSE,     \* Connection.connected
    socketUp   |-> FALSE,     \* the transport underneath really is up
    closing    |-> FALSE,     \* close() requested, "close" not yet emitted
    closed     |-> FALSE,     \* "close" has been emitted
    errL       |-> 0,         \* listeners registered for "error"
    sinkAtOpen |-> FALSE,     \* an "error" listener was there when open() ran
    closeL     |-> 0,         \* listeners registered for "close"
    closeCalls |-> 0,
    closeDone  |-> 0,         \* close() promises that have resolved
    destroyCalls |-> 0,
    destroyThrew |-> 0,       \* destroy() calls that have thrown or rejected
    destroyDone  |-> 0 ]      \* destroy() promises that have resolved

\* a create() invocation that has just constructed its connection
NewCall == [pc |-> "awaitOpen", napTime |-> 0, slept |-> 0,
            err |-> "none", nth |-> 0]

Live == DOMAIN conns

Settled == DOMAIN outcome

InFlight == DOMAIN calls

\* the connections create() has handed to the pool
Returned(c) == c \in Settled /\ outcome[c].result = "returned"

Rejected(c) == c \in Settled /\ outcome[c].result = "rejected"

Init ==
  /\ attempts = 0
  /\ nextId = 0
  /\ conns = [c \in {} |-> NewConnection]
  /\ calls = [c \in {} |-> NewCall]
  /\ outcome = [c \in {} |-> [result |-> "none"]]
  /\ streak = 0
  /\ lastValidate = [called |-> FALSE, result |-> FALSE, flag |-> FALSE,
                     stale |-> FALSE]
  /\ errors = [emitted |-> 0, sunk |-> 0, last |-> 0, closing |-> FALSE]

(* ------------------------------ create() ------------------------------ *)
\* one connection object kept and used again by the next call
FreshConnection_Reused == IF nextId = 0 THEN 1 ELSE nextId

\* const connection = new Connection(...): a fresh object on every call
FreshConnection == nextId + 1

\* connection.on("error", this.onConnectionError)
OnError(obj) == [obj EXCEPT !.errL = @ + 1]

\* connection.open(), up to its promise
OpenCall(obj) == [obj EXCEPT !.open = "pending", !.openCalls = @ + 1,
                             !.sinkAtOpen = obj.errL > 0]

\* open() called first, the error sink registered after it
OpenThenListen(obj) == OnError(OpenCall(obj))

\* connection.on("error", ...); ... connection.open()
ListenThenOpen(obj) == OpenCall(OnError(obj))

\* create() up to its first await: construct the connection, register the
\* error sink, call open() and suspend on its promise
CreateUpTo(limit) ==
  /\ Cardinality(InFlight) < MaxInFlight
  /\ nextId < limit
  /\ Cardinality(Live) < MaxLive
  /\ LET c == FreshConnection
         obj == IF c \in Live THEN conns[c] ELSE NewConnection
     IN /\ conns' = [d \in Live \cup {c} |->
                       IF d = c
                       THEN ListenThenOpen(obj)
                       ELSE conns[d]]
        /\ calls' = [d \in InFlight \cup {c} |->
                       IF d = c THEN NewCall ELSE calls[d]]
        /\ nextId' = IF c > nextId THEN c ELSE nextId
  /\ UNCHANGED <<attempts, outcome, streak, lastValidate, errors>>

Create == CreateUpTo(MaxCreates)

\* Connection.open() settles: with a greeting (the connection is connected)
OpenResolve(c) ==
  /\ c \in Live
  /\ conns[c].open = "pending"
  /\ conns' = [conns EXCEPT ![c].open = "ok", ![c].connected = TRUE,
                            ![c].socketUp = TRUE]
  /\ UNCHANGED <<attempts, nextId, calls, outcome, streak, lastValidate, errors>>

\* Connection.open() settles: with a failure
OpenReject(c, e) ==
  /\ c \in Live
  /\ conns[c].open = "pending"
  /\ conns' = [conns EXCEPT ![c].open = "err", ![c].raised = e]
  /\ UNCHANGED <<attempts, nextId, calls, outcome, streak, lastValidate, errors>>

\* a catch block whose increment is lost when another failed call is
\* already backing off
Catch_LostUpdate(c, e) ==
  /\ attempts' = IF \E d \in InFlight : calls[d].pc = "sleeping"
                 THEN attempts
                 ELSE Incremented(attempts)
  /\ streak' = streak + 1
  /\ calls' = [calls EXCEPT ![c].pc = "sleeping",
                            ![c].napTime = NapTime(attempts'),
                            ![c].slept = 0,
                            ![c].err = e,
                            ![c].nth = streak + 1]
  /\ UNCHANGED <<conns, outcome>>

\* a catch block that tears the attempted connection down before backing off
Catch_Cleanup(c, e) ==
  /\ attempts' = Incremented(attempts)
  /\ streak' = streak + 1
  /\ calls' = [calls EXCEPT ![c].pc = "sleeping",
                            ![c].napTime = NapTime(Incremented(attempts)),
                            ![c].slept = 0,
                            ![c].err = e,
                            ![c].nth = streak + 1]
  /\ conns' = [conns EXCEPT ![c].errL = 0, ![c].closeCalls = @ + 1]
  /\ UNCHANGED outcome

\* catch (e): this.attempts += 1; napTime = 200 * min(attempts, 20);
\* await sleep(napTime)
Catch(c, e) ==
  /\ attempts' = Incremented(attempts)
  /\ streak' = streak + 1
  /\ calls' = [calls EXCEPT ![c].pc = "sleeping",
                            ![c].napTime = NapTime(Incremented(attempts)),
                            ![c].slept = 0,
                            ![c].err = e,
                            ![c].nth = streak + 1]
  /\ UNCHANGED <<conns, outcome>>

\* await this.handshake(connection, greeting): the call, up to the await
CallHandshake(c) ==
  /\ conns' = [conns EXCEPT ![c].hs = "pending", ![c].hsCalls = @ + 1]
  /\ calls' = [calls EXCEPT ![c].pc = "awaitHandshake"]
  /\ UNCHANGED <<attempts, outcome, streak>>

\* a rejection that is swallowed instead of reaching the catch block
Threw_Swallowed(p) == FALSE

\* the awaited promise rejected: control goes to the catch block
Threw(p) == p = "err"

\* create() that opens the connection again when open() has failed
AfterOpen_Retry(c) ==
  /\ c \in InFlight
  /\ calls[c].pc = "awaitOpen"
  /\ conns[c].open \in {"ok", "err"}
  /\ IF Threw(conns[c].open)
     THEN /\ conns' = [conns EXCEPT ![c].open = "pending",
                                    ![c].openCalls = @ + 1]
          /\ UNCHANGED <<attempts, calls, outcome, streak>>
     ELSE CallHandshake(c)
  /\ UNCHANGED <<nextId, lastValidate, errors>>

\* create() resumed after `await connection.open()`
AfterOpen(c) ==
  /\ c \in InFlight
  /\ calls[c].pc = "awaitOpen"
  /\ conns[c].open \in {"ok", "err"}
  /\ IF Threw(conns[c].open)
     THEN Catch(c, conns[c].raised)
     ELSE CallHandshake(c)
  /\ UNCHANGED <<nextId, lastValidate, errors>>

\* the injected handshake function settles: resolves with an identifier
HandshakeResolve(c) ==
  /\ c \in Live
  /\ conns[c].hs = "pending"
  /\ conns' = [conns EXCEPT ![c].hs = "ok"]
  /\ UNCHANGED <<attempts, nextId, calls, outcome, streak, lastValidate, errors>>

\* the injected handshake function settles: rejects
HandshakeReject(c, e) ==
  /\ c \in Live
  /\ conns[c].hs = "pending"
  /\ conns' = [conns EXCEPT ![c].hs = "err", ![c].raised = e]
  /\ UNCHANGED <<attempts, nextId, calls, outcome, streak, lastValidate, errors>>

\* the settled create() of connection c
Settle(c, o) == [d \in Settled \cup {c} |-> IF d = c THEN o ELSE outcome[d]]

\* this.attempts = 0; return connection
Succeed(c) ==
  /\ attempts' = AttemptsAfterSuccess
  /\ streak' = 0
  /\ calls' = [d \in InFlight \ {c} |-> calls[d]]
  /\ outcome' = Settle(c, [result |-> "returned", err |-> "none",
                           napTime |-> 0, slept |-> 0, nth |-> 0])
  /\ UNCHANGED conns

\* create() whose try block ends before the handshake: a handshake failure
\* is thrown at once, uncounted and without backoff
AfterHandshake_Uncaught(c) ==
  /\ c \in InFlight
  /\ calls[c].pc = "awaitHandshake"
  /\ conns[c].hs \in {"ok", "err"}
  /\ IF Threw(conns[c].hs)
     THEN /\ calls' = [d \in InFlight \ {c} |-> calls[d]]
          /\ outcome' = Settle(c, [result |-> "rejected",
                                   err |-> conns[c].raised, napTime |-> 0,
                                   slept |-> 0, nth |-> 0])
          /\ UNCHANGED <<attempts, conns, streak>>
     ELSE Succeed(c)
  /\ UNCHANGED <<nextId, lastValidate, errors>>

\* create() resumed after `await this.handshake(connection, greeting)`
AfterHandshake(c) ==
  /\ c \in InFlight
  /\ calls[c].pc = "awaitHandshake"
  /\ conns[c].hs \in {"ok", "err"}
  /\ IF Threw(conns[c].hs)
     THEN Catch(c, conns[c].raised)
     ELSE Succeed(c)
  /\ UNCHANGED <<nextId, lastValidate, errors>>

\* calls whose backoff timer has not expired yet
Sleepers == {c \in InFlight : calls[c].pc = "sleeping"
                              /\ calls[c].slept < calls[c].napTime}

Remaining(c) == calls[c].napTime - calls[c].slept

\* time passes, up to the expiry of the next timer
Tick ==
  /\ Sleepers # {}
  /\ LET d == CHOOSE d \in {Remaining(c) : c \in Sleepers} :
                 \A j \in Sleepers : d <= Remaining(j)
     IN calls' = [c \in InFlight |->
                    IF c \in Sleepers
                    THEN [calls[c] EXCEPT !.slept = @ + d]
                    ELSE calls[c]]
  /\ UNCHANGED <<attempts, nextId, conns, outcome, streak, lastValidate, errors>>

\* sleep(napTime) not awaited
TimerFired_NotAwaited(c) == TRUE

\* sleep(napTime) has resolved
TimerFired(c) == calls[c].slept >= calls[c].napTime

\* the error create() rejects with: throw e
Thrown(c) == calls[c].err

\* a create() that goes back to sleep when its timer has fired
AfterSleep_SleepsAgain(c) ==
  /\ c \in InFlight
  /\ calls[c].pc = "sleeping"
  /\ TimerFired(c)
  /\ calls' = [calls EXCEPT ![c].slept = 0]
  /\ UNCHANGED <<attempts, nextId, conns, outcome, streak, lastValidate,
                 errors>>

\* a create() that writes the count it slept for back when it wakes up
AfterSleep_Recount(c) ==
  /\ c \in InFlight
  /\ calls[c].pc = "sleeping"
  /\ TimerFired(c)
  /\ calls' = [d \in InFlight \ {c} |-> calls[d]]
  /\ outcome' = Settle(c, [result |-> "rejected", err |-> Thrown(c),
                           napTime |-> calls[c].napTime,
                           slept |-> calls[c].slept, nth |-> calls[c].nth])
  /\ attempts' = calls[c].nth
  /\ UNCHANGED <<nextId, conns, streak, lastValidate, errors>>

\* create() resumed after `await sleep(napTime)`: throw e
AfterSleep(c) ==
  /\ c \in InFlight
  /\ calls[c].pc = "sleeping"
  /\ TimerFired(c)
  /\ calls' = [d \in InFlight \ {c} |-> calls[d]]
  /\ outcome' = Settle(c, [result |-> "rejected", err |-> Thrown(c),
                           napTime |-> calls[c].napTime,
                           slept |-> calls[c].slept, nth |-> calls[c].nth])
  /\ UNCHANGED <<attempts, nextId, conns, streak, lastValidate, errors>>

(* ----------------------------- destroy() ------------------------------ *)
\* connection.removeAllListeners(), run by the "close" listeners destroy()
\* registered (none registered: nothing runs)
EmitClose(obj) ==
  IF obj.closeL > 0 THEN [obj EXCEPT !.errL = 0, !.closeL = 0] ELSE obj

\* Connection.close(): idempotent.  The first request starts closing the
\* transport and its promise stays pending until the transport has closed; a
\* request on a connection already closing or closed changes nothing and
\* completes at once.
CloseRequest(obj) ==
  IF obj.closing \/ obj.closed
  THEN [obj EXCEPT !.closeCalls = @ + 1, !.closeDone = @ + 1]
  ELSE [obj EXCEPT !.closeCalls = @ + 1, !.closing = TRUE]

\* a destroy() that refuses a connection that is not ready any more
DestroyThrows_Strict(obj) == obj.closing \/ obj.closed

\* destroy() has no guard and no throw statement of its own
DestroyThrows(obj) == FALSE

\* a destroy() that removes the listeners at once
OnClose_RemoveNow(obj) == [obj EXCEPT !.errL = 0, !.closeL = 0]

\* connection.on("close", () => connection.removeAllListeners())
OnClose(obj) == [obj EXCEPT !.closeL = @ + 1]

\* return connection.close(): destroy()'s promise is close()'s promise
ReturnClose(obj) == [obj EXCEPT !.destroyDone = obj.closeDone]

\* connection.on("close", () => connection.removeAllListeners());
\* return connection.close();
Destroy(c) ==
  /\ c \in Live
  /\ Returned(c)
  /\ conns[c].destroyCalls < MaxDestroy
  /\ conns' = [conns EXCEPT ![c] =
                 IF DestroyThrows(conns[c])
                 THEN [conns[c] EXCEPT !.destroyCalls = @ + 1,
                                       !.destroyThrew = @ + 1]
                 ELSE ReturnClose(CloseRequest(OnClose(
                        [conns[c] EXCEPT !.destroyCalls = @ + 1])))]
  /\ UNCHANGED <<attempts, nextId, calls, outcome, streak, lastValidate, errors>>

\* the transport has closed after close(): the connection emits "close" and
\* the pending close() promise resolves
CloseComplete(c) ==
  /\ c \in Live
  /\ conns[c].closing
  /\ conns' = [conns EXCEPT ![c] =
                 ReturnClose(EmitClose(
                   [conns[c] EXCEPT !.closing = FALSE,
                                    !.closed = TRUE,
                                    !.connected = FALSE,
                                    !.socketUp = FALSE,
                                    !.closeDone = @ + 1]))]
  /\ UNCHANGED <<attempts, nextId, calls, outcome, streak, lastValidate, errors>>

\* the remote side closes a pooled connection: the connection is told and
\* emits "close"
RemoteClose(c) ==
  /\ c \in Live
  /\ Returned(c)
  /\ conns[c].connected
  /\ ~conns[c].closing
  /\ conns' = [conns EXCEPT ![c] =
                 EmitClose([conns[c] EXCEPT !.closed = TRUE,
                                            !.connected = FALSE,
                                            !.socketUp = FALSE])]
  /\ UNCHANGED <<attempts, nextId, calls, outcome, streak, lastValidate, errors>>

\* the transport of a pooled connection drops silently: the connection is
\* not told
SilentDrop(c) ==
  /\ c \in Live
  /\ Returned(c)
  /\ conns[c].connected
  /\ conns[c].socketUp
  /\ conns' = [conns EXCEPT ![c].socketUp = FALSE]
  /\ UNCHANGED <<attempts, nextId, calls, outcome, streak, lastValidate, errors>>

(* ----------------------------- validate() ----------------------------- *)
\* a validate() that probes the transport
ValidateResult_Probe(obj) == obj.connected /\ obj.socketUp

\* return connection.connected
ValidateResult(obj) == obj.connected

Validate(c) ==
  /\ c \in Live
  /\ Returned(c)
  /\ lastValidate' = [called |-> TRUE,
                      result |-> ValidateResult(conns[c]),
                      flag |-> conns[c].connected,
                      stale |-> conns[c].connected /\ ~conns[c].socketUp]
  /\ UNCHANGED <<attempts, nextId, conns, calls, outcome, streak, errors>>

(* ------------------------------- pool --------------------------------- *)
\* the caller drops its reference to a connection whose create() rejected,
\* or to one that has closed after it was destroyed
Discard(c) ==
  /\ c \in Live
  /\ \/ Rejected(c)
     \/ /\ Returned(c)
        /\ conns[c].closed
        /\ conns[c].destroyCalls > 0
        /\ conns[c].destroyDone = conns[c].destroyCalls
  /\ conns' = [d \in Live \ {c} |-> conns[d]]
  /\ outcome' = [d \in Settled \ {c} |-> outcome[d]]
  /\ UNCHANGED <<attempts, nextId, calls, streak, lastValidate, errors>>

Next ==
  \/ Create
  \/ \E c \in Live : OpenResolve(c)
  \/ \E c \in Live, e \in OpenErrors : OpenReject(c, e)
  \/ \E c \in Live : AfterOpen(c)
  \/ \E c \in Live : HandshakeResolve(c)
  \/ \E c \in Live, e \in HandshakeErrors : HandshakeReject(c, e)
  \/ \E c \in Live : AfterHandshake(c)
  \/ Tick
  \/ \E c \in Live : AfterSleep(c)
  \/ \E c \in Live : Destroy(c)
  \/ \E c \in Live : CloseComplete(c)
  \/ \E c \in Live : RemoteClose(c)
  \/ \E c \in Live : SilentDrop(c)
  \/ \E c \in Live : Validate(c)
  \/ \E c \in Live : Discard(c)

Spec == Init /\ [][Next]_vars

(* --------------------------- "error" events --------------------------- *)
\* this.onConnectionError = console.error.bind(console), registered by
\* connection.on("error", this.onConnectionError): called once for every
\* "error" the connection emits while it is registered
Sunk(obj) == IF obj.errL > 0 THEN 1 ELSE 0

\* an error sink that counts the error as a failed attempt
OnConnectionError_Counts ==
  /\ attempts' = attempts + 1
  /\ UNCHANGED <<calls, outcome, streak>>

\* this.onConnectionError(err): console.error, nothing of the factory changes
OnConnectionError == UNCHANGED <<attempts, calls, outcome, streak>>

\* a connection emits "error": its "error" listeners are called, nothing else
ErrorEvent(c) ==
  /\ c \in Live
  /\ errors.emitted < MaxErrors
  /\ errors' = [emitted |-> errors.emitted + 1,
                sunk |-> errors.sunk + Sunk(conns[c]),
                last |-> c,
                closing |-> conns[c].closing]
  /\ IF conns[c].errL > 0
     THEN OnConnectionError
     ELSE UNCHANGED <<attempts, calls, outcome, streak>>
  /\ UNCHANGED <<nextId, conns, lastValidate>>

\* create() and destroy() with the connections emitting "error" at any time
CreateFew == CreateUpTo(MaxEventCreates)

NextEvents ==
  \/ CreateFew
  \/ \E c \in Live : OpenResolve(c)
  \/ \E c \in Live, e \in OpenErrors : OpenReject(c, e)
  \/ \E c \in Live : AfterOpen(c)
  \/ \E c \in Live : HandshakeResolve(c)
  \/ \E c \in Live, e \in HandshakeErrors : HandshakeReject(c, e)
  \/ \E c \in Live : AfterHandshake(c)
  \/ Tick
  \/ \E c \in Live : AfterSleep(c)
  \/ \E c \in Live : Destroy(c)
  \/ \E c \in Live : CloseComplete(c)
  \/ \E c \in Live : RemoteClose(c)
  \/ \E c \in Live : Discard(c)
  \/ \E c \in Live : ErrorEvent(c)

SpecEvents == Init /\ [][NextEvents]_vars

(* ------------------------------ outage -------------------------------- *)
\* A caller that retries create() one call after another while no handshake
\* succeeds: the next create() starts only once the previous one has settled.
CreateAlone ==
  /\ InFlight = {}
  /\ CreateUpTo(MaxRetries)

NextOutage ==
  \/ CreateAlone
  \/ \E c \in Live : OpenResolve(c)
  \/ \E c \in Live, e \in OpenErrors : OpenReject(c, e)
  \/ \E c \in Live : AfterOpen(c)
  \/ \E c \in Live, e \in HandshakeErrors : HandshakeReject(c, e)
  \/ \E c \in Live : AfterHandshake(c)
  \/ Tick
  \/ \E c \in Live : AfterSleep(c)
  \/ \E c \in Live : Discard(c)

SpecOutage == Init /\ [][NextOutage]_vars

(* ------------------------------- storm -------------------------------- *)
\* Callers that keep calling create(), several calls in flight together,
\* while no handshake succeeds
CreateStorm == CreateUpTo(MaxStorm)

NextStorm ==
  \/ CreateStorm
  \/ \E c \in Live : OpenResolve(c)
  \/ \E c \in Live, e \in OpenErrors : OpenReject(c, e)
  \/ \E c \in Live : AfterOpen(c)
  \/ \E c \in Live, e \in HandshakeErrors : HandshakeReject(c, e)
  \/ \E c \in Live : AfterHandshake(c)
  \/ Tick
  \/ \E c \in Live : AfterSleep(c)
  \/ \E c \in Live : Discard(c)

SpecStorm == Init /\ [][NextStorm]_vars

(* ------------------------------ fairness ------------------------------ *)
\* create(), validate() and destroy() under a scheduler that runs every task
\* whose awaited promise has settled, with open() and handshake() settling
\* and the timers firing
NextFair ==
  \/ CreateFew
  \/ \E c \in Live : OpenResolve(c)
  \/ \E c \in Live, e \in OpenErrors : OpenReject(c, e)
  \/ \E c \in Live : AfterOpen(c)
  \/ \E c \in Live : HandshakeResolve(c)
  \/ \E c \in Live, e \in HandshakeErrors : HandshakeReject(c, e)
  \/ \E c \in Live : AfterHandshake(c)
  \/ Tick
  \/ \E c \in Live : AfterSleep(c)
  \/ \E c \in Live : Destroy(c)
  \/ \E c \in Live : CloseComplete(c)
  \/ \E c \in Live : Validate(c)
  \/ \E c \in Live : Discard(c)

\* open() and handshake() settle
Settles(c) ==
  \/ OpenResolve(c)
  \/ \E e \in OpenErrors : OpenReject(c, e)
  \/ HandshakeResolve(c)
  \/ \E e \in HandshakeErrors : HandshakeReject(c, e)

\* the event loop resumes a create() whose awaited promise has settled
Resumes(c) == AfterOpen(c) \/ AfterHandshake(c) \/ AfterSleep(c)

Fairness ==
  /\ WF_vars(Tick)
  /\ \A c \in 1..MaxEventCreates :
       WF_vars(Settles(c)) /\ WF_vars(Resumes(c))

SpecFair == Init /\ [][NextFair]_vars /\ Fairness

(* ============================== claims ================================ *)
\* the creation of connection c has failed
Failed(c) == conns[c].open = "err" \/ conns[c].hs = "err"

\* the failure record of c: of the sleeping call, or of the rejected one
Sleeping(c) == c \in InFlight /\ calls[c].pc = "sleeping"

FailureOf(c) == IF c \in InFlight THEN calls[c] ELSE outcome[c]

\* C1: create() never returns a connection unless open() succeeded on it and
\* handshake() was then called on it and succeeded; a connection whose open()
\* or handshake() failed is never returned.
C1_ReturnedOnlyReady ==
  \A c \in Live :
    /\ Returned(c) => /\ conns[c].open = "ok"
                      /\ conns[c].openCalls >= 1
                      /\ conns[c].hs = "ok"
                      /\ conns[c].hsCalls >= 1
    /\ Failed(c) => ~Returned(c)

\* a connection has been returned while another one, whose handshake
\* failed, has been rejected
C1_Witness ==
  \E c \in Live, d \in Live :
    Returned(c) /\ Rejected(d) /\ conns[d].open = "ok" /\ conns[d].hs = "err"

\* C2: when create() is called N times one after another and every call
\* fails, the call of the Nth connection sleeps min(N, 20) * 200 before it
\* rejects and attempts is N after its failure; the 21st rejection comes
\* after exactly 4000, and no delay exceeds 4000.
C2_BackoffRamp ==
  /\ \A c \in InFlight :
       calls[c].pc = "sleeping" =>
         /\ attempts = c
         /\ calls[c].napTime = (IF c <= 20 THEN c ELSE 20) * 200
         /\ calls[c].napTime <= 4000
  /\ \A c \in Settled :
       Rejected(c) =>
         /\ outcome[c].napTime = (IF c <= 20 THEN c ELSE 20) * 200
         /\ outcome[c].slept = outcome[c].napTime
         /\ outcome[c].napTime <= 4000
         /\ (c = 21 => outcome[c].slept = 4000)

\* the 21st consecutive call has rejected after a wait of 4000
C2_Witness ==
  /\ 21 \in Settled
  /\ Rejected(21)
  /\ outcome[21].napTime = 4000
  /\ outcome[21].slept = 4000
  /\ attempts = 21

\* C3: the step in which a create() returns its connection leaves
\* attempts = 0, whatever attempts was before, and a failure observed while
\* attempts = 0 is backed off by 200.
C3_SuccessResetsAttempts ==
  [][ /\ \A c \in InFlight :
           (calls[c].pc = "awaitHandshake" /\ c \notin DOMAIN calls')
             => /\ c \in DOMAIN outcome'
                /\ outcome'[c].result = "returned"
                /\ attempts' = 0
      /\ \A c \in InFlight \cap DOMAIN calls' :
           (attempts = 0 /\ calls[c].pc # "sleeping"
              /\ calls'[c].pc = "sleeping")
             => calls'[c].napTime = 200 ]_vars

\* two calls were made: the first failed and was counted, the second
\* returned its connection afterwards and attempts is 0 again
C3_Witness ==
  /\ nextId = 2
  /\ InFlight = {}
  /\ 1 \in Settled /\ Rejected(1)
  /\ 2 \in Settled /\ Returned(2)
  /\ attempts = 0

\* C4: attempts is never negative and always equals the number of failures
\* observed since the last success was observed (since construction if there
\* was none), under every interleaving of the create() calls in flight.
C4_AttemptsIsStreak ==
  /\ attempts >= 0
  /\ attempts = streak

\* after a first call that succeeded, two calls in flight together have both
\* failed
C4_Witness ==
  /\ nextId = 3
  /\ Sleeping(2) /\ Sleeping(3)
  /\ attempts = 2

\* C5 (as claimed): once every destroy(c) has completed, close() was invoked
\* once by each of them and c has no listener left, also when c was already
\* closing or had already emitted "close" when destroy(c) was called.
C5_DestroyDetachesAll ==
  \A c \in Live :
    (conns[c].destroyCalls > 0
       /\ conns[c].destroyDone = conns[c].destroyCalls)
      => /\ conns[c].closeCalls = conns[c].destroyCalls
         /\ conns[c].errL = 0
         /\ conns[c].closeL = 0

\* C6: validate(c) returns exactly the `connected` flag of c and changes
\* nothing: not attempts, not any connection (no call on it, no listener),
\* not any create() in flight; for a connection whose transport dropped
\* unnoticed it returns true.
C6_ValidateIsPure ==
  [][ lastValidate' # lastValidate
        => /\ UNCHANGED <<attempts, nextId, conns, calls, outcome, streak,
                         errors>>
           /\ lastValidate'.called
           /\ lastValidate'.result = lastValidate'.flag
           /\ lastValidate'.stale => lastValidate'.result
           /\ \E c \in Live :
                /\ Returned(c)
                /\ lastValidate'.result = conns[c].connected ]_vars

\* validate() has returned true for a connection whose transport had
\* dropped silently
C6_Witness ==
  /\ lastValidate.called
  /\ lastValidate.stale
  /\ lastValidate.result

\* C7: a rejected create() has slept its whole backoff delay, which is at
\* least 200, and rejects with the very error open() or handshake() raised.
C7_RejectsAfterBackoff ==
  \A c \in Settled :
    Rejected(c) =>
      /\ outcome[c].napTime >= 200
      /\ outcome[c].slept >= outcome[c].napTime
      /\ outcome[c].err = conns[c].raised
      /\ conns[c].open = "err" => outcome[c].err \in OpenErrors
      /\ conns[c].open = "ok" => outcome[c].err \in HandshakeErrors

\* a create() has rejected with the handshake's error after sleeping 400
C7_Witness ==
  \E c \in Settled :
    /\ Rejected(c)
    /\ outcome[c].err = "EHANDSHAKE"
    /\ outcome[c].napTime = 400
    /\ outcome[c].slept = 400

\* C8: a handshake() failure after a successful open() takes the same
\* failure path as an open() failure: the failure is counted as the next one
\* of the streak and sleeps 200 * min(n, 20) for the nth, after exactly one
\* handshake call; no create() whose handshake failed settles otherwise.
C8_HandshakeFailureBacksOff ==
  \A c \in Live :
    /\ (Sleeping(c) \/ Rejected(c)) =>
         /\ Failed(c)
         /\ FailureOf(c).nth >= 1
         /\ FailureOf(c).napTime
              = 200 * (IF FailureOf(c).nth <= 20 THEN FailureOf(c).nth ELSE 20)
         /\ conns[c].open = "ok" => conns[c].hs = "err" /\ conns[c].hsCalls = 1
    /\ (c \in Settled /\ conns[c].hs = "err") =>
         Rejected(c) /\ outcome[c].nth >= 1

\* the second call in a row whose handshake failed has rejected after 400,
\* and the third call has returned its connection with attempts = 0
C8_Witness ==
  /\ 2 \in Settled /\ Rejected(2)
  /\ conns[2].open = "ok" /\ conns[2].hs = "err"
  /\ outcome[2].nth = 2
  /\ outcome[2].napTime = 400 /\ outcome[2].slept = 400
  /\ 3 \in Settled /\ Returned(3)
  /\ attempts = 0

\* C9: create() does not retry: every invocation constructs exactly one
\* connection, calls open() on it once and handshake() at most once (once if
\* open() succeeded, never if it failed), and a connection whose creation
\* failed stays failed and is never returned.
C9_OneAttemptPerCall ==
  /\ [](\A c \in Live :
          /\ conns[c].openCalls = 1
          /\ conns[c].hsCalls <= 1
          /\ conns[c].open = "err" => conns[c].hsCalls = 0
          /\ conns[c].hsCalls = 1 => conns[c].open = "ok"
          /\ (conns[c].open = "ok" /\ ~(c \in InFlight
                                        /\ calls[c].pc = "awaitOpen"))
               => conns[c].hsCalls = 1)
  /\ [][ /\ (DOMAIN calls' \ InFlight) # {}
            => /\ nextId' = nextId + 1
               /\ DOMAIN calls' \ InFlight = {nextId'}
               /\ DOMAIN conns' \ Live = {nextId'}
         /\ \A c \in Live \cap DOMAIN conns' :
              Failed(c) => /\ conns'[c].open = conns[c].open
                           /\ conns'[c].hs = conns[c].hs
                           /\ conns'[c].openCalls = conns[c].openCalls
                           /\ conns'[c].hsCalls = conns[c].hsCalls
                           /\ ~(c \in DOMAIN outcome'
                                /\ outcome'[c].result = "returned") ]_vars

\* one call has rejected after open() failed, without any handshake, and
\* another one after its handshake failed
C9_Witness ==
  \E c \in Live, d \in Live :
    /\ Rejected(c) /\ conns[c].open = "err" /\ conns[c].hsCalls = 0
    /\ Rejected(d) /\ conns[d].hs = "err" /\ conns[d].hsCalls = 1

\* C10: every create() invocation works on a connection of its own: no
\* connection is opened, handshaken or given the error sink by two
\* invocations, none is both in flight and settled, and a returned
\* connection was opened and handshaken once, by the call that returned it.
C10_OwnConnection ==
  \A c \in Live :
    /\ conns[c].openCalls <= 1
    /\ conns[c].hsCalls <= 1
    /\ conns[c].errL <= 1
    /\ c \in InFlight \/ c \in Settled
    /\ ~(c \in InFlight /\ c \in Settled)
    /\ Returned(c) => conns[c].openCalls = 1 /\ conns[c].hsCalls = 1

\* a call has returned its connection while a call started before it is
\* still waiting for its own handshake
C10_Witness ==
  \E c \in Live, d \in Live :
    /\ d < c
    /\ Returned(c)
    /\ d \in InFlight /\ calls[d].pc = "awaitHandshake"
    /\ conns[d].hs = "pending"

\* the connection has been destroyed and has closed since
Gone(c) == conns[c].closed /\ conns[c].destroyCalls > 0

\* C11: an "error" event of a created connection that has not been destroyed
\* and closed reaches onConnectionError, and the event does nothing else: it
\* settles no create() or destroy() in flight, changes no connection and
\* leaves attempts as it is.
C11_ErrorsOnlyReachSink ==
  /\ [](\A c \in Live : conns[c].errL = 0 => Gone(c))
  /\ [](errors.sunk <= errors.emitted)
  /\ [][ errors' # errors
           => /\ errors'.last \in Live
              /\ errors'.emitted = errors.emitted + 1
              /\ ~Gone(errors'.last) => errors'.sunk = errors.sunk + 1
              /\ UNCHANGED <<attempts, nextId, conns, calls, outcome, streak,
                             lastValidate>> ]_vars

\* a pooled connection has emitted "error" into the sink while a failed
\* create() was sleeping, and attempts still counts that one failure only
C11_Witness ==
  /\ errors.sunk = 1
  /\ errors.last \in Live /\ Returned(errors.last)
  /\ \E d \in InFlight : calls[d].pc = "sleeping"
  /\ attempts = 1

\* C13: on every connection the error sink is registered before open() is
\* called, so it is registered during the whole of opening and handshaking
\* and an "error" emitted then reaches onConnectionError.
C13_SinkBeforeOpen ==
  /\ [](\A c \in Live :
          /\ conns[c].openCalls >= 1 => conns[c].sinkAtOpen
          /\ c \in InFlight => conns[c].errL >= 1)
  /\ [][ (errors' # errors /\ errors'.last \in InFlight)
           => errors'.sunk = errors.sunk + 1 ]_vars

\* an "error" emitted while open() was pending has reached the sink
C13_Witness ==
  /\ errors.sunk = 1
  /\ errors.last \in InFlight
  /\ conns[errors.last].open = "pending"

\* C12: destroy(c) never throws and always completes, whether c is ready,
\* already closing or already closed when it is called: a destroy() of a
\* connection that is not closing has completed, and while c is closing only
\* the destroy() that started the close is pending.
C12_DestroyNeverThrows ==
  \A c \in Live :
    /\ conns[c].destroyThrew = 0
    /\ conns[c].closeCalls = conns[c].destroyCalls
    /\ ~conns[c].closing => conns[c].destroyDone = conns[c].destroyCalls
    /\ conns[c].closing => conns[c].destroyDone = conns[c].destroyCalls - 1

\* c was destroyed while ready and again after it had closed; both calls
\* have completed
C12_Witness ==
  \E c \in Live :
    /\ conns[c].closed
    /\ conns[c].destroyCalls = 2
    /\ conns[c].destroyDone = 2
    /\ conns[c].closeL = 1

\* C14: destroy(c) itself removes no listener: from the destroy(c) call to
\* c's "close" event the error sink stays attached and an "error" emitted
\* while closing reaches it; the "close" event of a destroyed connection
\* leaves c without listeners; and destroy(c) has completed exactly when the
\* close() it called has.
C14_ListenersRemovedAtClose ==
  /\ [](\A c \in Live :
          /\ conns[c].closing => conns[c].errL >= 1
          /\ conns[c].destroyDone = conns[c].closeDone)
  /\ [][ \A c \in Live \cap DOMAIN conns' :
           /\ conns'[c].destroyCalls # conns[c].destroyCalls
                => /\ conns'[c].errL = conns[c].errL
                   /\ conns'[c].closeL = conns[c].closeL + 1
           /\ (conns[c].closing /\ conns'[c].closed)
                => /\ conns'[c].errL = 0
                   /\ conns'[c].closeL = 0
                   /\ conns'[c].destroyDone = conns[c].destroyDone + 1
           /\ conns'[c].errL < conns[c].errL
                => conns[c].destroyCalls > 0 /\ ~conns[c].closed
                     /\ conns'[c].closed ]_vars
  /\ [][ (errors' # errors /\ errors'.closing)
           => errors'.sunk = errors.sunk + 1 ]_vars

\* an "error" emitted while c was closing reached the sink; c has emitted
\* "close" since, has no listener left, and its destroy() has completed
C14_Witness ==
  /\ errors.sunk = 1
  /\ errors.closing
  /\ errors.last \in Live
  /\ conns[errors.last].closed
  /\ conns[errors.last].errL = 0
  /\ conns[errors.last].closeL = 0
  /\ conns[errors.last].destroyDone = 1

\* C15: a create() that has rejected has never called close() on the
\* connection it built and has left its error sink registered on it.
C15_FailureLeavesConnection ==
  \A c \in Live :
    (c \in InFlight \/ Rejected(c))
      => /\ conns[c].closeCalls = 0
         /\ conns[c].closeL = 0
         /\ ~conns[c].closing
         /\ conns[c].errL = 1

\* create() has rejected after a failed handshake: the connection is open,
\* was never closed and still carries the error sink
C15_Witness ==
  \E c \in Live :
    /\ Rejected(c)
    /\ conns[c].open = "ok"
    /\ conns[c].hs = "err"
    /\ conns[c].connected
    /\ conns[c].closeCalls = 0
    /\ conns[c].errL = 1

\* create() calls that have not observed their failure yet
Awaiting == {c \in InFlight : calls[c].pc # "sleeping"}

\* connections whose create() has observed its failure
Observed == {c \in Live : Sleeping(c) \/ Rejected(c)}

\* C16: with several create() calls in flight and none succeeding, no
\* increment of attempts is lost: the step that observes a failure takes
\* attempts from a to a + 1 and sleeps min(a + 1, 20) * 200, whatever the
\* other calls are doing; the failures observed carry distinct counter
\* values, ordered as observed; and attempts is the number of failures
\* observed so far.
C16_NoLostUpdate ==
  /\ [](attempts = nextId - Cardinality(Awaiting))
  /\ [](\A c \in Observed :
          /\ FailureOf(c).nth \in 1..attempts
          /\ FailureOf(c).napTime =
               (IF FailureOf(c).nth <= 20 THEN FailureOf(c).nth ELSE 20) * 200
          /\ \A d \in Observed : d # c => FailureOf(d).nth # FailureOf(c).nth)
  /\ [][ \A c \in InFlight :
           (calls[c].pc # "sleeping" /\ Sleeping(c)')
             => /\ attempts' = attempts + 1
                /\ calls'[c].nth = attempts + 1
                /\ calls'[c].napTime =
                     (IF attempts + 1 <= 20 THEN attempts + 1 ELSE 20) * 200
                /\ \A d \in InFlight \ {c} : calls'[d] = calls[d] ]_vars

\* two calls in flight together from attempts = 2 have failed, the later
\* created one first: it sleeps 600 as the 3rd failure, the other one 800 as
\* the 4th, and attempts is 4
C16_Witness ==
  /\ nextId = 4
  /\ Sleeping(3) /\ Sleeping(4)
  /\ calls[4].nth = 3 /\ calls[3].nth = 4
  /\ calls[4].napTime = 600 /\ calls[3].napTime = 800
  /\ attempts = 4

\* C17: a create() that succeeds while other calls are sleeping sets attempts
\* to 0 in that step and leaves the sleepers as they are; a sleeping call
\* keeps the delay it computed until it rejects, having slept all of it; its
\* rejection leaves attempts alone; and a failure observed at attempts = 0
\* sleeps 200 however many earlier failures are still sleeping.
C17_ResetDuringBackoff ==
  [][ \A c \in InFlight :
        /\ (calls[c].pc = "awaitHandshake" /\ c \notin DOMAIN calls')
             => /\ attempts' = 0
                /\ \A d \in InFlight \ {c} : calls'[d] = calls[d]
        /\ (Sleeping(c) /\ c \in DOMAIN calls')
             => /\ calls'[c].pc = "sleeping"
                /\ calls'[c].napTime = calls[c].napTime
                /\ calls'[c].slept >= calls[c].slept
        /\ (Sleeping(c) /\ c \notin DOMAIN calls')
             => /\ attempts' = attempts
                /\ outcome'[c].result = "rejected"
                /\ outcome'[c].napTime = calls[c].napTime
                /\ outcome'[c].slept >= calls[c].napTime
        /\ (calls[c].pc # "sleeping" /\ c \in DOMAIN calls'
              /\ calls'[c].pc = "sleeping" /\ attempts = 0)
             => calls'[c].napTime = 200 ]_vars

\* call 1 failed first and is still sleeping its 200; call 2 succeeded
\* meanwhile; call 3 has failed after that and sleeps 200 as a first failure
C17_Witness ==
  /\ Sleeping(1) /\ Sleeping(3)
  /\ calls[1].nth = 1 /\ calls[1].napTime = 200 /\ calls[1].slept < 200
  /\ calls[3].nth = 1 /\ calls[3].napTime = 200
  /\ attempts = 1

\* the awaited promise of call c has settled and c has not been resumed yet
Runnable(c) ==
  \/ calls[c].pc = "awaitOpen" /\ conns[c].open \in {"ok", "err"}
  \/ calls[c].pc = "awaitHandshake" /\ conns[c].hs \in {"ok", "err"}
  \/ calls[c].pc = "sleeping" /\ calls[c].slept >= calls[c].napTime

\* C18: with open() and handshake() settling, the timers firing and runnable
\* tasks being resumed, every create() settles; and while a create() is in
\* flight, another create() can start and any other runnable create() can be
\* resumed, and validate() and destroy() of a pooled connection can run.
C18_CreateTerminates ==
  /\ \A c \in 1..MaxEventCreates : (c \in InFlight) ~> (c \in Settled)
  /\ [](\A c \in InFlight :
          /\ (nextId < MaxEventCreates /\ Cardinality(InFlight) < MaxInFlight
                /\ Cardinality(Live) < MaxLive) => ENABLED CreateFew
          /\ \A d \in InFlight \ {c} : Runnable(d) => ENABLED Resumes(d)
          /\ \A d \in Live :
               Returned(d) =>
                 /\ ENABLED Validate(d)
                 /\ conns[d].destroyCalls < MaxDestroy => ENABLED Destroy(d))

\* create() number 2 has rejected, after its sleep, while create() number 1
\* was still awaiting open()
C18_Witness ==
  /\ 1 \in InFlight /\ calls[1].pc = "awaitOpen"
  /\ 2 \in Settled /\ Rejected(2)
  /\ outcome[2].slept = 200

====
